---------------------------- MODULE Spec2Model ----------------------------
(***************************************************************************)
(* gron: JSON <-> flat "path = value;" assignment statements.              *)
(*                                                                         *)
(* The three actions of src/gron.go (Gron, GronStream, Ungron) are         *)
(* modelled from their code.  The statement library they call (walker,     *)
(* text form, sorter, lexer, parser, merger) is not part of src/ and is    *)
(* modelled from the design document (sections 3, 4 and 6).                *)
(*                                                                         *)
(* Text is a sequence of one-character strings, so that the byte order of  *)
(* rendered statements, quoting and lexing are all computed.               *)
(***************************************************************************)
EXTENDS Integers, Sequences, FiniteSets, TLC

(***************************************************************************)
(* Bounds of the model.                                                    *)
(***************************************************************************)
MaxNodes == 3       \* nodes of a JSON document given to Gron
MaxLines == 3       \* input lines given to GronStream
MaxStmts == 2       \* input lines given to Ungron
MaxKeyLen == 2      \* length of the generated keys given to makePrefix

(***************************************************************************)
(* Characters and text.                                                    *)
(***************************************************************************)
Lower == << "a", "b", "c", "d", "e", "f", "g", "h", "i", "j", "k", "l", "m",
            "n", "o", "p", "q", "r", "s", "t", "u", "v", "w", "x", "y", "z" >>
Upper == << "A", "B", "C", "D", "E", "F", "G", "H", "I", "J", "K", "L", "M",
            "N", "O", "P", "Q", "R", "S", "T", "U", "V", "W", "X", "Y", "Z" >>
Digit == << "0", "1", "2", "3", "4", "5", "6", "7", "8", "9" >>

Range(s) == { s[n] : n \in DOMAIN s }
IndexOf(s, c) == CHOOSE n \in DOMAIN s : s[n] = c

Letters == Range(Lower) \cup Range(Upper)
Digits == Range(Digit)

\* The byte value of the punctuation the grammar and the keys use.
PunctCode == (" " :> 32) @@ ("!" :> 33) @@ ("\"" :> 34) @@ ("-" :> 45)
             @@ ("." :> 46) @@ (";" :> 59) @@ ("=" :> 61) @@ ("[" :> 91)
             @@ ("\\" :> 92) @@ ("]" :> 93) @@ ("_" :> 95) @@ ("{" :> 123)
             @@ ("}" :> 125)

Chars == Letters \cup Digits \cup DOMAIN PunctCode

\* The byte value of a character: the order sort.Sort compares text in.
CharCode == [ c \in Chars |->
                IF c \in Range(Lower) THEN 96 + IndexOf(Lower, c)
                ELSE IF c \in Range(Upper) THEN 64 + IndexOf(Upper, c)
                ELSE IF c \in Digits THEN 47 + IndexOf(Digit, c)
                ELSE PunctCode[c] ]

isLetter(c) == c \in Letters
isDigit(c) == c \in Digits

\* Byte-wise lexicographic order on text.
RECURSIVE TextLess(_, _)
TextLess(s, t) ==
    IF t = << >> THEN FALSE
    ELSE IF s = << >> THEN TRUE
    ELSE IF s[1] # t[1] THEN CharCode[s[1]] < CharCode[t[1]]
    ELSE TextLess(Tail(s), Tail(t))

\* fmt.Sprintf("%d", n) for n >= 0.
RECURSIVE formatInt(_)
formatInt(n) ==
    IF n < 10 THEN << Digit[n + 1] >>
    ELSE formatInt(n \div 10) \o << Digit[(n % 10) + 1] >>

\* The number a run of decimal digits denotes.
RECURSIVE parseInt(_)
parseInt(ds) ==
    IF ds = << >> THEN 0
    ELSE 10 * parseInt(SubSeq(ds, 1, Len(ds) - 1)) + (IndexOf(Digit, ds[Len(ds)]) - 1)

\* JSON string escaping of quote and backslash.
RECURSIVE escapeString(_)
escapeString(s) ==
    IF s = << >> THEN << >>
    ELSE (IF s[1] \in { "\"", "\\" } THEN << "\\", s[1] >> ELSE << s[1] >>)
         \o escapeString(Tail(s))

quoteString(s) == << "\"" >> \o escapeString(s) \o << "\"" >>

(***************************************************************************)
(* Tokens and statements.                                                  *)
(***************************************************************************)
typBare == "typBare"
typQuotedKey == "typQuotedKey"
typNumericKey == "typNumericKey"
typLBrace == "typLBrace"
typRBrace == "typRBrace"
typDot == "typDot"
typEquals == "typEquals"
typSemi == "typSemi"
typEmptyArray == "typEmptyArray"
typEmptyObject == "typEmptyObject"
typString == "typString"
typNumber == "typNumber"
typTrue == "typTrue"
typFalse == "typFalse"
typNull == "typNull"

valueTypes == { typEmptyArray, typEmptyObject, typString, typNumber,
                typTrue, typFalse, typNull }

token(text, typ) == [ text |-> text, typ |-> typ ]

tokLBrace == token(<< "[" >>, typLBrace)
tokRBrace == token(<< "]" >>, typRBrace)
tokDot == token(<< "." >>, typDot)
tokEquals == token(<< "=" >>, typEquals)
tokSemi == token(<< ";" >>, typSemi)

json == << "j", "s", "o", "n" >>

\* statementToString: the token texts in order, with " = " for the operator.
RECURSIVE statementToString(_)
statementToString(s) ==
    IF s = << >> THEN << >>
    ELSE (IF s[1].typ = typEquals THEN << " ", "=", " " >> ELSE s[1].text)
         \o statementToString(Tail(s))

(***************************************************************************)
(* JSON values.  An object is a function from its keys to values, so two   *)
(* objects are equal whatever order their keys were set in.                *)
(***************************************************************************)
Null == [ t |-> "null" ]
Bool(b) == [ t |-> "bool", b |-> b ]
Num(ip, fp) == [ t |-> "num", ip |-> ip, fp |-> fp ]   \* fp: fraction digits
Str(s) == [ t |-> "str", s |-> s ]
Arr(a) == [ t |-> "arr", a |-> a ]
Obj(o) == [ t |-> "obj", o |-> o ]
NoKeys == [ k \in {} |-> Null ]

isObj(v) == v.t = "obj"
isArr(v) == v.t = "arr"

\* The literal token of a leaf, the empty-container marker of a container.
valueToken(v) ==
    CASE v.t = "null" -> token(<< "n", "u", "l", "l" >>, typNull)
      [] v.t = "bool" -> IF v.b THEN token(<< "t", "r", "u", "e" >>, typTrue)
                         ELSE token(<< "f", "a", "l", "s", "e" >>, typFalse)
      [] v.t = "num" -> token(formatInt(v.ip)
                              \o (IF v.fp = << >> THEN << >> ELSE << "." >> \o v.fp),
                              typNumber)
      [] v.t = "str" -> token(quoteString(v.s), typString)
      [] v.t = "arr" -> token(<< "[", "]" >>, typEmptyArray)
      [] v.t = "obj" -> token(<< "{", "}" >>, typEmptyObject)

(***************************************************************************)
(* Value Walker.                                                           *)
(***************************************************************************)
\* keyMustBeQuoted with the first character held to the rule of the others.
keyMustBeQuotedAnyStart(k) ==
    ~ ( /\ k # << >>
        /\ \A n \in 1..Len(k) : isLetter(k[n]) \/ isDigit(k[n]) \/ k[n] = "_" )

\* A key is a bare path segment iff it is non-empty, starts with a letter
\* or underscore and continues with letters, digits or underscores.
keyMustBeQuoted(k) ==
    ~ ( /\ k # << >>
        /\ (isLetter(k[1]) \/ k[1] = "_")
        /\ \A n \in 2..Len(k) : isLetter(k[n]) \/ isDigit(k[n]) \/ k[n] = "_" )

withBare(prefix, k) == prefix \o << tokDot, token(k, typBare) >>
withQuotedKey(prefix, k) ==
    prefix \o << tokLBrace, token(quoteString(k), typQuotedKey), tokRBrace >>
withNumericKey(prefix, n) ==
    prefix \o << tokLBrace, token(formatInt(n), typNumericKey), tokRBrace >>

withKey(prefix, k) ==
    IF keyMustBeQuoted(k) THEN withQuotedKey(prefix, k) ELSE withBare(prefix, k)

\* makePrefix(prev, next) of the tests: the text of prev extended by one
\* segment; next is an integer index or a string key.
makePrefix(prev, next) ==
    prev \o statementToString(IF next.kind = "int" THEN withNumericKey(<< >>, next.n)
                              ELSE withKey(<< >>, next.s))

RECURSIVE fill(_, _, _), fillKeys(_, _, _, _), fillElems(_, _, _, _)

\* fill with the children walked before the node's own statement is emitted.
fillChildrenFirst(prefix, v, ord) ==
    (IF isObj(v)
     THEN fillKeys(prefix, v.o, SelectSeq(ord, LAMBDA k : k \in DOMAIN v.o), ord)
     ELSE IF isArr(v) THEN fillElems(prefix, v.a, 1, ord)
     ELSE << >>)
    \o << prefix \o << tokEquals, valueToken(v), tokSemi >> >>

\* Depth-first, pre-order: the node's own statement, then its children.
\* ord is the order the map iteration yields the keys in.
fill(prefix, v, ord) ==
    << prefix \o << tokEquals, valueToken(v), tokSemi >> >>
    \o (IF isObj(v)
        THEN fillKeys(prefix, v.o, SelectSeq(ord, LAMBDA k : k \in DOMAIN v.o), ord)
        ELSE IF isArr(v) THEN fillElems(prefix, v.a, 1, ord)
        ELSE << >>)
fillKeys(prefix, o, ks, ord) ==
    IF ks = << >> THEN << >>
    ELSE fill(withKey(prefix, ks[1]), o[ks[1]], ord)
         \o fillKeys(prefix, o, Tail(ks), ord)
fillElems(prefix, a, n, ord) ==
    IF n > Len(a) THEN << >>
    ELSE fill(withNumericKey(prefix, n - 1), a[n], ord)
         \o fillElems(prefix, a, n + 1, ord)

\* statementsFromJSON(r, prefix): decode one document from the reader and
\* walk it.  A document is a value, malformed text, or a failing reader.
statementsFromJSON(doc, prefix, ord) ==
    IF doc.kind = "json"
    THEN [ err |-> FALSE, why |-> "none", ss |-> fill(prefix, doc.v, ord) ]
    ELSE [ err |-> TRUE, why |-> (IF doc.kind = "readerr" THEN "read" ELSE "form"),
           ss |-> << >> ]

(***************************************************************************)
(* Statement Sorter: sort.Sort over the byte order of the rendered text.   *)
(***************************************************************************)
Less(a, b) == TextLess(statementToString(a), statementToString(b))

RECURSIVE insertSorted(_, _)
insertSorted(ss, s) ==
    IF ss = << >> THEN << s >>
    ELSE IF Less(s, ss[1]) THEN << s >> \o ss
    ELSE << ss[1] >> \o insertSorted(Tail(ss), s)

RECURSIVE sortStatements(_)
sortStatements(ss) ==
    IF ss = << >> THEN << >>
    ELSE insertSorted(sortStatements(SubSeq(ss, 1, Len(ss) - 1)), ss[Len(ss)])

(***************************************************************************)
(* Statement Lexer: one line of the text form into tokens, left to right.  *)
(* Of the JSON escapes, the two that escapeString writes are lexed; of the *)
(* JSON numbers, digits with an optional fraction.                         *)
(***************************************************************************)
take(cs, n) == SubSeq(cs, 1, n)
drop(cs, n) == SubSeq(cs, n + 1, Len(cs))

\* The length of the longest prefix of cs made of characters of S.
spanLen(cs, S) ==
    IF \A n \in DOMAIN cs : cs[n] \in S THEN Len(cs)
    ELSE (CHOOSE n \in DOMAIN cs : cs[n] \notin S /\ \A m \in 1..(n - 1) : cs[m] \in S) - 1

skipSpace(cs) == drop(cs, spanLen(cs, { " " }))

startsWith(cs, p) == Len(cs) >= Len(p) /\ take(cs, Len(p)) = p

identLen(cs) ==
    IF cs # << >> /\ (isLetter(cs[1]) \/ cs[1] = "_")
    THEN spanLen(cs, Letters \cup Digits \cup { "_" })
    ELSE 0

\* The index of the quote closing the string that opens at cs[1], scanning
\* from n; 0 for an unterminated string or an invalid escape.
RECURSIVE quotedEnd(_, _)
quotedEnd(cs, n) ==
    IF n > Len(cs) THEN 0
    ELSE IF cs[n] = "\"" THEN n
    ELSE IF cs[n] = "\\"
         THEN IF n + 1 <= Len(cs) /\ cs[n + 1] \in { "\"", "\\" }
              THEN quotedEnd(cs, n + 2) ELSE 0
    ELSE quotedEnd(cs, n + 1)

RECURSIVE unescapeString(_)
unescapeString(s) ==
    IF s = << >> THEN << >>
    ELSE IF s[1] = "\\" THEN << s[2] >> \o unescapeString(drop(s, 2))
    ELSE << s[1] >> \o unescapeString(Tail(s))

\* The text a quoted literal denotes.
unquote(q) == unescapeString(SubSeq(q, 2, Len(q) - 1))

numberLen(cs) ==
    LET d1 == spanLen(cs, Digits)
        d2 == spanLen(drop(cs, d1 + 1), Digits)
    IN  IF d1 = 0 THEN 0
        ELSE IF d1 < Len(cs) /\ cs[d1 + 1] = "." THEN (IF d2 = 0 THEN 0 ELSE d1 + 1 + d2)
        ELSE d1

\* The value token at the head of cs: its length (0 for none) and type.
lexValue(cs) ==
    IF cs = << >> THEN [ len |-> 0, typ |-> typNull ]
    ELSE IF startsWith(cs, << "{", "}" >>) THEN [ len |-> 2, typ |-> typEmptyObject ]
    ELSE IF startsWith(cs, << "[", "]" >>) THEN [ len |-> 2, typ |-> typEmptyArray ]
    ELSE IF startsWith(cs, << "t", "r", "u", "e" >>) THEN [ len |-> 4, typ |-> typTrue ]
    ELSE IF startsWith(cs, << "f", "a", "l", "s", "e" >>) THEN [ len |-> 5, typ |-> typFalse ]
    ELSE IF startsWith(cs, << "n", "u", "l", "l" >>) THEN [ len |-> 4, typ |-> typNull ]
    ELSE IF cs[1] = "\"" THEN [ len |-> quotedEnd(cs, 2), typ |-> typString ]
    ELSE [ len |-> numberLen(cs), typ |-> typNumber ]

lexError == [ err |-> TRUE, toks |-> << >> ]

\* " = value ;" and nothing after it.
lexAssignment(cs0, toks) ==
    LET cs == skipSpace(cs0)
        v == lexValue(cs)
        c2 == skipSpace(drop(cs, v.len))
    IN  IF v.len = 0 \/ c2 = << >> \/ c2[1] # ";" \/ skipSpace(Tail(c2)) # << >>
        THEN lexError
        ELSE [ err |-> FALSE,
               toks |-> toks \o << tokEquals, token(take(cs, v.len), v.typ), tokSemi >> ]

\* The path segments after the root name, then the assignment.
RECURSIVE lexRest(_, _)
lexRest(cs0, toks) ==
    LET cs == skipSpace(cs0)
    IN  IF cs = << >> THEN lexError
        ELSE IF cs[1] = "."
        THEN LET c2 == skipSpace(Tail(cs))
                 n == identLen(c2)
             IN  IF n = 0 THEN lexError
                 ELSE lexRest(drop(c2, n), toks \o << tokDot, token(take(c2, n), typBare) >>)
        ELSE IF cs[1] = "["
        THEN LET c2 == skipSpace(Tail(cs))
                 n == IF c2 = << >> THEN 0
                      ELSE IF isDigit(c2[1]) THEN spanLen(c2, Digits)
                      ELSE IF c2[1] = "\"" THEN quotedEnd(c2, 2)
                      ELSE 0
                 c3 == skipSpace(drop(c2, n))
             IN  IF n = 0 \/ c3 = << >> \/ c3[1] # "]" THEN lexError
                 ELSE lexRest(Tail(c3),
                              toks \o << tokLBrace,
                                         token(take(c2, n),
                                               IF isDigit(c2[1]) THEN typNumericKey
                                               ELSE typQuotedKey),
                                         tokRBrace >>)
        ELSE IF cs[1] = "=" THEN lexAssignment(Tail(cs), toks)
        ELSE lexError

lex(line) ==
    LET cs == skipSpace(line)
        n == identLen(cs)
    IN  IF n = 0 THEN lexError
        ELSE lexRest(drop(cs, n), << token(take(cs, n), typBare) >>)

(***************************************************************************)
(* Statement Parser: the shape of a token sequence.                        *)
(***************************************************************************)
RECURSIVE validRest(_)
validRest(ts) ==
    IF ts = << >> THEN TRUE      \* a bare path reference
    ELSE IF ts[1].typ = typDot
    THEN Len(ts) >= 2 /\ ts[2].typ = typBare /\ validRest(drop(ts, 2))
    ELSE IF ts[1].typ = typLBrace
    THEN /\ Len(ts) >= 3
         /\ ts[2].typ \in { typNumericKey, typQuotedKey }
         /\ ts[3].typ = typRBrace
         /\ validRest(drop(ts, 3))
    ELSE IF ts[1].typ = typEquals
    THEN Len(ts) = 3 /\ ts[2].typ \in valueTypes /\ ts[3].typ = typSemi
    ELSE FALSE

parse(toks) ==
    IF toks # << >> /\ toks[1].typ = typBare /\ validRest(Tail(toks))
    THEN [ err |-> FALSE, s |-> toks ]
    ELSE [ err |-> TRUE, s |-> << >> ]

\* Whether s ends in an operator, one value token and the terminator.
hasAssignment(s) ==
    /\ Len(s) >= 4
    /\ s[Len(s) - 2].typ = typEquals
    /\ s[Len(s) - 1].typ \in valueTypes
    /\ s[Len(s)].typ = typSemi

(***************************************************************************)
(* Tree Merger.                                                            *)
(***************************************************************************)
keySeg(k) == [ kind |-> "key", k |-> k, n |-> 0 ]
idxSeg(n) == [ kind |-> "idx", k |-> << >>, n |-> n ]

\* The tokens of s before its operator.
pathTokens(s) ==
    IF \E n \in DOMAIN s : s[n].typ = typEquals
    THEN take(s, (CHOOSE n \in DOMAIN s : s[n].typ = typEquals) - 1)
    ELSE s

\* The traversal a statement's path describes, the root name first.
RECURSIVE segments(_)
segments(ts) ==
    IF ts = << >> THEN << >>
    ELSE IF ts[1].typ = typBare THEN << keySeg(ts[1].text) >> \o segments(Tail(ts))
    ELSE IF ts[1].typ = typQuotedKey THEN << keySeg(unquote(ts[1].text)) >> \o segments(Tail(ts))
    ELSE IF ts[1].typ = typNumericKey THEN << idxSeg(parseInt(ts[1].text)) >> \o segments(Tail(ts))
    ELSE segments(Tail(ts))

\* The value a value token denotes.
decodeNumber(text) ==
    LET d1 == spanLen(text, Digits)
    IN  Num(parseInt(take(text, d1)), drop(text, d1 + 1))

tokenValue(tok) ==
    CASE tok.typ = typEmptyArray -> Arr(<< >>)
      [] tok.typ = typEmptyObject -> Obj(NoKeys)
      [] tok.typ = typString -> Str(unquote(tok.text))
      [] tok.typ = typNumber -> decodeNumber(tok.text)
      [] tok.typ = typTrue -> Bool(TRUE)
      [] tok.typ = typFalse -> Bool(FALSE)
      [] tok.typ = typNull -> Null

\* padTo appending n placeholders whatever the length of a.
padAlways(a, n) == a \o [ m \in 1..n |-> Null ]

\* a extended with Null placeholders to length n at least.
padTo(a, n) == [ m \in 1..(IF Len(a) >= n THEN Len(a) ELSE n) |-> IF m <= Len(a) THEN a[m] ELSE Null ]

mergeOK(v) == [ err |-> FALSE, why |-> "none", v |-> v ]
typeConflict == [ err |-> TRUE, why |-> "TypeConflict", v |-> Null ]
noValue == [ err |-> TRUE, why |-> "NoValue", v |-> Null ]

\* node with val assigned at path: containers are created on demand, a
\* Null may become a container, any other value of the wrong kind is a
\* conflict, and the value at the end of the path is overwritten.
RECURSIVE assign(_, _, _)
assign(node, path, val) ==
    IF path = << >> THEN mergeOK(val)
    ELSE IF path[1].kind = "key"
    THEN IF ~(isObj(node) \/ node = Null) THEN typeConflict
         ELSE LET o == IF isObj(node) THEN node.o ELSE NoKeys
                  k == path[1].k
                  r == assign(IF k \in DOMAIN o THEN o[k] ELSE Null, Tail(path), val)
              IN  IF r.err THEN r
                  ELSE mergeOK(Obj([ x \in DOMAIN o \cup { k } |-> IF x = k THEN r.v ELSE o[x] ]))
    ELSE IF ~(isArr(node) \/ node = Null) THEN typeConflict
         ELSE LET a == padTo(IF isArr(node) THEN node.a ELSE << >>, path[1].n + 1)
                  r == assign(a[path[1].n + 1], Tail(path), val)
              IN  IF r.err THEN r
                  ELSE mergeOK(Arr([ a EXCEPT ![path[1].n + 1] = r.v ]))

\* One statement folded into the tree; a statement that assigns nothing
\* cannot be merged.
mergeStatement(root, s) ==
    IF ~hasAssignment(s) THEN noValue
    ELSE assign(root, segments(pathTokens(s)), tokenValue(s[Len(s) - 1]))

\* The statements folded left to right into one object of root names.
RECURSIVE mergeInto(_, _)
mergeInto(root, stmts) ==
    IF stmts = << >> THEN mergeOK(root)
    ELSE LET r == mergeStatement(root, stmts[1])
         IN  IF r.err THEN r ELSE mergeInto(r.v, Tail(stmts))

toInterface(stmts) == mergeInto(Obj(NoKeys), stmts)

(***************************************************************************)
(* The inputs of the model.                                                *)
(***************************************************************************)
Leaves == { Null, Bool(TRUE), Bool(FALSE), Num(1, << >>), Num(1, << "5" >>),
            Str(<< "a", "\"" >>) }

\* A bare key, which is the root name itself, and a key that needs quoting
\* and reads like an array index.
KeyList == << json, << "0" >> >>
Keys == Range(KeyList)

\* Every order the iteration over a map may yield the keys in.
Orders == { p \in [1..Len(KeyList) -> Keys] : \A k \in Keys : \E n \in DOMAIN p : p[n] = k }

RECURSIVE Size(_), SizeAll(_)
Size(v) ==
    1 + (IF isArr(v) THEN SizeAll(v.a)
         ELSE IF isObj(v) THEN SizeAll([ n \in 1..Cardinality(DOMAIN v.o) |->
                   v.o[(SelectSeq(KeyList, LAMBDA k : k \in DOMAIN v.o))[n]] ])
         ELSE 0)
SizeAll(vs) == IF vs = << >> THEN 0 ELSE Size(vs[1]) + SizeAll(Tail(vs))

\* The JSON values of at most n nodes.
RECURSIVE ValuesUpTo(_), ArraysUpTo(_), ObjectsUpTo(_, _)
ValuesUpTo(n) ==
    IF n <= 0 THEN {}
    ELSE Leaves \cup { Arr(a) : a \in ArraysUpTo(n - 1) }
                \cup { Obj(o) : o \in ObjectsUpTo(n - 1, KeyList) }
ArraysUpTo(n) ==
    { << >> } \cup UNION { { << v >> \o a : a \in ArraysUpTo(n - Size(v)) } : v \in ValuesUpTo(n) }
ObjectsUpTo(n, ks) ==
    IF ks = << >> THEN { NoKeys }
    ELSE ObjectsUpTo(n, Tail(ks))
         \cup UNION { { (ks[1] :> v) @@ o : o \in ObjectsUpTo(n - Size(v), Tail(ks)) }
                      : v \in ValuesUpTo(n) }

document(v) == [ kind |-> "json", v |-> v ]
malformed == [ kind |-> "malformed" ]
readerr == [ kind |-> "readerr" ]

GronDocs == { document(v) : v \in ValuesUpTo(MaxNodes) } \cup { malformed, readerr }

(***************************************************************************)
(* src/gron.go: options, exit codes, output.                               *)
(***************************************************************************)
OptMonochrome == 1
OptNoSort == 2
OptJSON == 4

ExitOK == 0
ExitOpenFile == 1
ExitReadInput == 2
ExitFormStatements == 3
ExitFetchURL == 4
ExitParseStatements == 5
ExitJSONEncode == 6

\* opts&bit > 0
has(opts, bit) == (opts \div bit) % 2 = 1

AllOpts == 0..(OptMonochrome + OptNoSort + OptJSON)

\* s.jsonify(): the statement as a JSON array of tagged tokens; it fails on
\* a statement that assigns nothing.
jsonify(s) == [ err |-> ~hasAssignment(s), s |-> s ]

\* conv(s): one line of output, in the text form or the JSON-array form,
\* coloured or not.
textLine(s, color) == [ form |-> "text", text |-> statementToString(s), toks |-> << >>, color |-> color ]
jsonLine(s, color) == [ form |-> "json", text |-> << >>, toks |-> s, color |-> color ]

conv(opts, s) ==
    IF has(opts, OptJSON) THEN jsonLine(s, ~has(opts, OptMonochrome))
    ELSE textLine(s, ~has(opts, OptMonochrome))

\* The loop over ss that writes each statement; it stops at the first
\* statement jsonify fails on, with the lines before it written.
RECURSIVE writeStatements(_, _)
writeStatements(opts, ss) ==
    IF ss = << >> THEN [ err |-> FALSE, lines |-> << >> ]
    ELSE IF has(opts, OptJSON) /\ jsonify(ss[1]).err THEN [ err |-> TRUE, lines |-> << >> ]
    ELSE LET rest == writeStatements(opts, Tail(ss))
         IN  [ err |-> rest.err, lines |-> << conv(opts, ss[1]) >> \o rest.lines ]

\* The statements left in the order the walker produced them.
sortNever(opts, ss) == ss

\* if opts&OptNoSort == 0 { sort.Sort(ss) }
sortUnlessNoSort(opts, ss) == IF ~has(opts, OptNoSort) THEN sortStatements(ss) ELSE ss

\* statement{{"json", typBare}}
rootPrefix == << token(json, typBare) >>

VARIABLES
    input,      \* what the reader r yields
    opts,       \* the option bitfield
    pc,         \* where the action is
    i,          \* GronStream: the index of the next line
    ss,         \* the statements of the action
    merged,     \* Ungron: the merged value, before the top level is chosen
    out,        \* the lines written to w
    code,       \* the exit code returned
    err,        \* whether the error returned is non-nil
    cause       \* the class of the failure that made the action fail

vars == << input, opts, pc, i, ss, merged, out, code, err, cause >>

Idle ==
    /\ pc = "start"
    /\ i = 0
    /\ ss = << >>
    /\ merged = Null
    /\ out = << >>
    /\ code = ExitOK
    /\ err = FALSE
    /\ cause = "none"

return(c, e, why) ==
    /\ pc' = "done"
    /\ code' = c
    /\ err' = e
    /\ cause' = why

(***************************************************************************)
(* Gron (src/gron.go:50-86).                                               *)
(***************************************************************************)
InitGron ==
    /\ input \in GronDocs
    /\ opts \in AllOpts
    /\ Idle

Gron ==
    /\ pc = "start"
    /\ \E ord \in Orders :
          LET r == statementsFromJSON(input, rootPrefix, ord)
              sorted == sortUnlessNoSort(opts, r.ss)
              w == writeStatements(opts, sorted)
          IN  IF r.err
              THEN /\ return(ExitFormStatements, TRUE, r.why)
                   /\ UNCHANGED << ss, out >>
              ELSE /\ ss' = sorted
                   /\ out' = out \o w.lines
                   /\ IF w.err THEN return(ExitFormStatements, TRUE, "form")
                      ELSE return(ExitOK, FALSE, "none")
    /\ UNCHANGED << input, opts, i, merged >>

NextGron == Gron

SpecGron == InitGron /\ [][NextGron]_vars

(***************************************************************************)
(* GronStream (src/gron.go:91-176).                                        *)
(***************************************************************************)
\* The lines the scanner yields, and whether it then reports an error
\* rather than the end of the input.
scanned(lines, fail) == [ lines |-> lines, fail |-> fail ]

StreamDocs == { document(Num(1, << >>)),
                document(Arr(<< Bool(TRUE) >>)),
                document(Obj((json :> Null) @@ (<< "0" >> :> Str(<< "a" >>)))),
                malformed }

InitStream ==
    /\ \E n \in 0..MaxLines : \E ls \in [1..n -> StreamDocs] : \E f \in BOOLEAN :
          input = scanned(ls, f)
    /\ opts \in AllOpts
    /\ Idle

\* linePrefix counting the lines from one.
linePrefixFromOne(index) ==
    << token(json, typBare), tokLBrace, token(formatInt(index + 1), typNumericKey), tokRBrace >>

\* makePrefix := func(index int) statement
linePrefix(index) ==
    << token(json, typBare), tokLBrace, token(formatInt(index), typNumericKey), tokRBrace >>

top == << token(json, typBare), tokEquals, token(<< "[", "]" >>, typEmptyArray), tokSemi >>

\* Lines 117-131: the statement that makes the top level an array.
StreamTop ==
    /\ pc = "start"
    /\ IF has(opts, OptJSON) /\ jsonify(top).err
       THEN /\ return(ExitFormStatements, TRUE, "form")
            /\ UNCHANGED out
       ELSE /\ out' = out \o << conv(opts, top) >>
            /\ pc' = "scan"
            /\ UNCHANGED << code, err, cause >>
    /\ UNCHANGED << input, opts, i, ss, merged >>

\* StreamLine going on to the next line after a line that failed.
StreamLineSkipsFailure ==
    /\ pc = "scan"
    /\ i < Len(input.lines)
    /\ i' = i + 1
    /\ \E ord \in Orders :
          LET r == statementsFromJSON(input.lines[i + 1], linePrefix(i), ord)
              sorted == sortUnlessNoSort(opts, r.ss)
              w == writeStatements(opts, sorted)
          IN  /\ ss' = sorted
              /\ out' = out \o w.lines
              /\ UNCHANGED << pc, code, err, cause >>
    /\ UNCHANGED << input, opts, merged >>

\* Lines 138-165: one turn of the loop, for the line sc.Scan() yields.
StreamLine ==
    /\ pc = "scan"
    /\ i < Len(input.lines)
    /\ i' = i + 1
    /\ \E ord \in Orders :
          LET r == statementsFromJSON(input.lines[i + 1], linePrefix(i), ord)
              sorted == sortUnlessNoSort(opts, r.ss)
              w == writeStatements(opts, sorted)
          IN  IF r.err
              THEN /\ return(ExitFormStatements, TRUE, r.why)
                   /\ UNCHANGED << ss, out >>
              ELSE /\ ss' = sorted
                   /\ out' = out \o w.lines
                   /\ IF w.err THEN return(ExitFormStatements, TRUE, "form")
                      ELSE UNCHANGED << pc, code, err, cause >>
    /\ UNCHANGED << input, opts, merged >>

\* Lines 166-174: sc.Scan() is false; sc.Err() tells the end of the input
\* from a read error.
StreamEnd ==
    /\ pc = "scan"
    /\ i = Len(input.lines)
    /\ IF input.fail THEN return(ExitFormStatements, TRUE, "read")
       ELSE return(ExitOK, FALSE, "none")
    /\ UNCHANGED << input, opts, i, ss, merged, out >>

NextStream == StreamTop \/ StreamLine \/ StreamEnd

SpecStream == InitStream /\ [][NextStream]_vars

(***************************************************************************)
(* Ungron (src/gron.go:180-252).                                           *)
(***************************************************************************)
\* A line of input in the text form, and one in the JSON-array form.
textInput(text) == [ form |-> "text", text |-> text, toks |-> << >> ]
jsonInput(toks) == [ form |-> "json", text |-> << >>, toks |-> toks ]

makerError == [ err |-> TRUE, s |-> << >> ]

\* statementFromStringMaker: lex the text, parse the tokens.
statementFromStringMaker(line) ==
    IF line.form # "text" THEN makerError
    ELSE LET l == lex(line.text)
         IN  IF l.err THEN makerError ELSE parse(l.toks)

\* statementFromJSONSpec: the tokens of a JSON array of tagged tokens.
statementFromJSONSpec(line) ==
    IF line.form # "json" THEN makerError ELSE parse(line.toks)

maker(options, line) ==
    IF has(options, OptJSON) THEN statementFromJSONSpec(line)
    ELSE statementFromStringMaker(line)

\* makeStatements leaving out the lines the maker fails on.
RECURSIVE makeStatementsSkipping(_, _)
makeStatementsSkipping(options, lines) ==
    IF lines = << >> THEN [ err |-> FALSE, ss |-> << >> ]
    ELSE LET m == maker(options, lines[1])
             rest == makeStatementsSkipping(options, Tail(lines))
         IN  [ err |-> FALSE, ss |-> (IF m.err THEN << >> ELSE << m.s >>) \o rest.ss ]

\* Lines 190-198: the statements of the lines, up to the first line the
\* maker fails on.
RECURSIVE makeStatements(_, _)
makeStatements(options, lines) ==
    IF lines = << >> THEN [ err |-> FALSE, ss |-> << >> ]
    ELSE LET m == maker(options, lines[1])
             rest == makeStatements(options, Tail(lines))
         IN  IF m.err \/ rest.err THEN [ err |-> TRUE, ss |-> << >> ]
             ELSE [ err |-> FALSE, ss |-> << m.s >> \o rest.ss ]

\* topLevel unwrapping for as long as "json" is the only key.
RECURSIVE topLevelRepeated(_)
topLevelRepeated(m) ==
    IF isObj(m) /\ Cardinality(DOMAIN m.o) = 1 /\ json \in DOMAIN m.o
    THEN topLevelRepeated(m.o[json]) ELSE m

\* topLevel unwrapping whenever "json" is a key, whatever the other keys.
topLevelAnyCount(m) ==
    IF isObj(m) /\ json \in DOMAIN m.o THEN m.o[json] ELSE m

\* Lines 209-217: the value under "json" when that is the only key.
topLevel(m) ==
    IF isObj(m) /\ Cardinality(DOMAIN m.o) = 1 /\ json \in DOMAIN m.o THEN m.o[json] ELSE m

\* enc.Encode(merged): the document written, which holds the value.
encode(v) == [ err |-> FALSE, j |-> v ]

valueLine(v, color) == [ form |-> "value", v |-> v, color |-> color ]

Q == "\""

lineObject == textInput(json \o << " ", "=", " ", "{", "}", ";" >>)
lineA1 == textInput(json \o << ".", "a", " ", "=", " ", "1", ";" >>)
lineA0 == textInput(json \o << ".", "a", "[", "0", "]", " ", "=", " ", "2", ";" >>)
lineSparse == textInput(json \o << ".", "a", "[", "2", "]", "=", Q, "x", Q, ";" >>)
lineNested == textInput(json \o << ".", "j", "s", "o", "n", " ", "=", " ", "1", ".", "5", ";" >>)
lineQuoted == textInput(json \o << "[", Q, "a", "\\", Q, Q, "]", " ", "=", " ", "n", "u", "l", "l", ";" >>)
lineOther == textInput(<< "x", " ", "=", " ", "t", "r", "u", "e", ";" >>)
lineNoValue == textInput(json \o << ".", "a", " ", "=", " ", ";" >>)
lineNoSemi == textInput(json \o << ".", "a", " ", "=", " ", "1" >>)
lineOpen == textInput(json \o << "[", Q, "a", " ", "=", " ", "1", ";" >>)
lineTokens == jsonInput(withBare(rootPrefix, << "a" >>)
                        \o << tokEquals, token(<< "1" >>, typNumber), tokSemi >>)
linePath == jsonInput(withBare(rootPrefix, << "a" >>))
lineShape == jsonInput(<< tokDot, token(<< "a" >>, typBare), tokEquals,
                          token(<< "1" >>, typNumber), tokSemi >>)

UngronLines == { lineObject, lineA1, lineA0, lineSparse, lineNested, lineQuoted,
                 lineOther, lineNoValue, lineNoSemi, lineOpen, lineTokens,
                 linePath, lineShape }

InitUngron ==
    /\ \E n \in 0..MaxStmts : \E ls \in [1..n -> UngronLines] : \E f \in BOOLEAN :
          input = scanned(ls, f)
    /\ opts \in AllOpts
    /\ Idle

Ungron ==
    /\ pc = "start"
    /\ LET made == makeStatements(opts, input.lines)
           m == toInterface(made.ss)
           e == encode(topLevel(m.v))
       IN  IF made.err
           THEN /\ return(ExitParseStatements, TRUE, "parse")
                /\ UNCHANGED << ss, merged, out >>
           ELSE IF input.fail
           THEN /\ return(ExitReadInput, TRUE, "read")
                /\ ss' = made.ss
                /\ UNCHANGED << merged, out >>
           ELSE IF m.err
           THEN /\ return(ExitParseStatements, TRUE, "merge")
                /\ ss' = made.ss
                /\ UNCHANGED << merged, out >>
           ELSE /\ ss' = made.ss
                /\ merged' = m.v
                /\ IF e.err
                   THEN /\ return(ExitJSONEncode, TRUE, "encode")
                        /\ UNCHANGED out
                   ELSE /\ \E colorized \in BOOLEAN :
                              out' = out \o << valueLine(e.j, ~has(opts, OptMonochrome) /\ colorized) >>
                        /\ return(ExitOK, FALSE, "none")
    /\ UNCHANGED << input, opts, i >>

NextUngron == Ungron

SpecUngron == InitUngron /\ [][NextUngron]_vars

(***************************************************************************)
(* makePrefix and keyMustBeQuoted, as src/statements_test.go calls them.   *)
(***************************************************************************)
intNext(n) == [ kind |-> "int", n |-> n, s |-> << >> ]
strNext(s) == [ kind |-> "str", n |-> 0, s |-> s ]

dotted == << "d", "o", "t", "t", "e", "d" >>
dotted123 == dotted \o << "1", "2", "3" >>
undotted == << "u", "n", "-", "d", "o", "t", "t", "e", "d" >>
isquoted == << "i", "s", "-", "q", "u", "o", "t", "e", "d" >>
definitely == << "D", "e", "f", "i", "n", "i", "t", "e", "l", "y", " ",
                 "q", "u", "o", "t", "e", "d", "!" >>

TestKeys == { dotted, dotted123, undotted, isquoted, definitely }
TestIndexes == { 0, 1, 123 }
KeyChars == { "a", "Z", "_", "1", "-", " ", "!" }

call(prev, next) == [ prev |-> prev, next |-> next ]
returned(fn, r) == [ fn |-> fn, r |-> r ]

InitPrefix ==
    /\ \/ \E n \in TestIndexes : input = call(<< "j" >>, intNext(n))
       \/ \E k \in TestKeys : input = call(<< "j" >>, strNext(k))
       \/ \E n \in 0..MaxKeyLen : \E k \in [1..n -> KeyChars] :
             input = call(<< "j" >>, strNext(k))
    /\ opts = 0
    /\ Idle

MakePrefix ==
    /\ pc = "start"
    /\ out' = << returned("makePrefix", makePrefix(input.prev, input.next)) >>
    /\ return(ExitOK, FALSE, "none")
    /\ UNCHANGED << input, opts, i, ss, merged >>

KeyMustBeQuoted ==
    /\ pc = "start"
    /\ input.next.kind = "str"
    /\ out' = << returned("keyMustBeQuoted", keyMustBeQuoted(input.next.s)) >>
    /\ return(ExitOK, FALSE, "none")
    /\ UNCHANGED << input, opts, i, ss, merged >>

NextPrefix == MakePrefix \/ KeyMustBeQuoted

SpecPrefix == InitPrefix /\ [][NextPrefix]_vars

(***************************************************************************)
(* Definitions the properties are stated with.                             *)
(***************************************************************************)
\* The paths of the nodes of v, the root's being empty.
RECURSIVE NodePaths(_)
NodePaths(v) ==
    { << >> }
    \cup (IF isObj(v)
          THEN UNION { { << keySeg(k) >> \o p : p \in NodePaths(v.o[k]) } : k \in DOMAIN v.o }
          ELSE IF isArr(v)
          THEN UNION { { << idxSeg(n - 1) >> \o p : p \in NodePaths(v.a[n]) } : n \in DOMAIN v.a }
          ELSE {})

RECURSIVE NodeAt(_, _)
NodeAt(v, p) ==
    IF p = << >> THEN v
    ELSE IF p[1].kind = "key" THEN NodeAt(v.o[p[1].k], Tail(p))
    ELSE NodeAt(v.a[p[1].n + 1], Tail(p))

IsProperPrefix(p, q) == Len(p) < Len(q) /\ SubSeq(q, 1, Len(p)) = p

\* The literals of the leaves of the model, as JSON writes them.
Literal(v) ==
    CASE v = Null -> << "n", "u", "l", "l" >>
      [] v = Bool(TRUE) -> << "t", "r", "u", "e" >>
      [] v = Bool(FALSE) -> << "f", "a", "l", "s", "e" >>
      [] v = Num(1, << >>) -> << "1" >>
      [] v = Num(1, << "5" >>) -> << "1", ".", "5" >>
      [] v = Str(<< "a", "\"" >>) -> << "\"", "a", "\\", "\"", "\"" >>
      [] v = Str(<< "a" >>) -> << "\"", "a", "\"" >>
      [] isArr(v) -> << "[", "]" >>
      [] isObj(v) -> << "{", "}" >>

\* The path of a statement below its root name.
PathBelowRoot(s) == Tail(segments(pathTokens(s)))

\* The statement a written line holds.
StatementOf(line) == IF line.form = "json" THEN line.toks ELSE lex(line.text).toks

IsBareKey(k) ==
    /\ Len(k) >= 1
    /\ k[1] \notin Digits
    /\ \A n \in DOMAIN k : CharCode[k[n]] \in (48..57) \cup (65..90) \cup (97..122) \cup { 95 }

(***************************************************************************)
(* C1  Round trip: the statements Gron makes of a JSON value v from root   *)
(* "json", sorted, merge without error into a value whose top level, once  *)
(* collapsed as Ungron does, is v.                                         *)
(***************************************************************************)
RoundTrip ==
    (pc = "done" /\ input.kind = "json" /\ ~has(opts, OptNoSort))
    => /\ code = ExitOK
       /\ ~toInterface(ss).err
       /\ topLevel(toInterface(ss).v) = input.v

\* A value whose only key is "json", walked, sorted, merged and collapsed.
RoundTripWitness ==
    /\ pc = "done"
    /\ ~has(opts, OptNoSort)
    /\ input.kind = "json"
    /\ isObj(input.v)
    /\ DOMAIN input.v.o = { json }
    /\ isObj(input.v.o[json])
    /\ topLevel(toInterface(ss).v) = input.v

(***************************************************************************)
(* C2  Exit taxonomy: the exit codes of the failure classes are pairwise   *)
(* distinct and a failing return carries the code of the class of the      *)
(* failure that occurred; a read failure is reported as ExitReadInput.     *)
(***************************************************************************)
ClassCode(why) ==
    CASE why = "read" -> ExitReadInput
      [] why = "form" -> ExitFormStatements
      [] why \in { "parse", "merge" } -> ExitParseStatements
      [] why = "encode" -> ExitJSONEncode
      [] OTHER -> ExitOK

ExitTaxonomy ==
    /\ Cardinality({ ExitOK, ExitOpenFile, ExitReadInput, ExitFormStatements,
                     ExitFetchURL, ExitParseStatements, ExitJSONEncode }) = 7
    /\ (pc = "done" /\ err) => code = ClassCode(cause)

(***************************************************************************)
(* C3  No silent data loss in Ungron: when a line does not make a          *)
(* statement, or the merge of the statements fails, Ungron returns         *)
(* ExitParseStatements with an error and has written nothing; ExitOK is    *)
(* returned only when every line made a statement and the merge succeeded. *)
(***************************************************************************)
SomeLineFails == \E n \in DOMAIN input.lines : maker(opts, input.lines[n]).err

MergeFails ==
    /\ ~SomeLineFails
    /\ ~input.fail
    /\ toInterface([ n \in DOMAIN input.lines |-> maker(opts, input.lines[n]).s ]).err

NoSilentLoss ==
    pc = "done"
    => /\ (SomeLineFails \/ MergeFails)
             => (code = ExitParseStatements /\ err /\ out = << >>)
       /\ (input.lines = << lineA1, lineA0 >> /\ ~has(opts, OptJSON) /\ ~input.fail)
             => (code = ExitParseStatements /\ err /\ out = << >>)
       /\ code = ExitOK
             => (~SomeLineFails /\ Len(ss) = Len(input.lines) /\ Len(out) = 1)

\* json.a = 1; then json.a[0] = 2; given to Ungron.
NoSilentLossWitness ==
    /\ pc = "done"
    /\ input.lines = << lineA1, lineA0 >>
    /\ ~has(opts, OptJSON)
    /\ ~input.fail
    /\ code = ExitParseStatements
    /\ out = << >>

(***************************************************************************)
(* C4  Top-level collapsing: the value Ungron writes is the value under    *)
(* "json" exactly when the merged value is an object whose only key is     *)
(* "json"; the unwrapping is done once; any other merged value is written  *)
(* unchanged.                                                              *)
(***************************************************************************)
Collapsing ==
    (pc = "done" /\ code = ExitOK)
    => /\ merged = toInterface(ss).v
       /\ isObj(merged)
       /\ Len(out) = 1
       /\ IF DOMAIN merged.o = { json }
          THEN out[1].v = merged.o[json]
          ELSE out[1].v = merged

\* json.json = 1.5; alone: the value written still has the key "json".
CollapsingWitness ==
    /\ pc = "done"
    /\ code = ExitOK
    /\ DOMAIN merged.o = { json }
    /\ isObj(merged.o[json])
    /\ DOMAIN merged.o[json].o = { json }
    /\ out[1].v = merged.o[json]

TopLine ==
    IF has(opts, OptJSON) THEN jsonLine(top, ~has(opts, OptMonochrome))
    ELSE [ form |-> "text", text |-> << "j", "s", "o", "n", " ", "=", " ", "[", "]", ";" >>,
           toks |-> << >>, color |-> ~has(opts, OptMonochrome) ]

\* The block of line k, for one order of the keys.
Block(k, ord) ==
    LET walked == fill(withNumericKey(rootPrefix, k), input.lines[k + 1].v, ord)
    IN  writeStatements(opts, IF has(opts, OptNoSort) THEN walked ELSE sortStatements(walked)).lines

\* lines is the blocks of the input lines k .. n-1, in that order.
RECURSIVE IsBlocks(_, _, _)
IsBlocks(lines, k, n) ==
    IF k >= n THEN lines = << >>
    ELSE \E ord \in Orders :
            /\ startsWith(lines, Block(k, ord))
            /\ IsBlocks(drop(lines, Len(Block(k, ord))), k + 1, n)

\* The number of lines whose statements have been written.
Written == IF pc = "done" /\ cause = "form" THEN i - 1 ELSE i

StreamOrder ==
    /\ pc = "start" => (out = << >> /\ i = 0)
    /\ pc # "start" => /\ out # << >>
                       /\ out[1] = TopLine
                       /\ IsBlocks(Tail(out), 0, Written)

\* Two lines read, the block of the second after the block of the first.
StreamOrderWitness ==
    /\ i = 2
    /\ Written = 2
    /\ Len(out) >= 3
    /\ PathBelowRoot(StatementOf(out[2])) = << idxSeg(0) >>
    /\ PathBelowRoot(StatementOf(out[Len(out)]))[1] = idxSeg(1)

(***************************************************************************)
(* C7  Determinism: without OptNoSort the lines Gron writes are the same   *)
(* for every order the walker may visit the keys in; with OptNoSort they   *)
(* are the statements in the order the walker produced them.               *)
(***************************************************************************)
Determinism ==
    (pc = "done" /\ input.kind = "json")
    => IF ~has(opts, OptNoSort)
       THEN \A ord \in Orders :
               out = writeStatements(opts, sortStatements(fill(rootPrefix, input.v, ord))).lines
       ELSE \E ord \in Orders :
               /\ ss = fill(rootPrefix, input.v, ord)
               /\ out = writeStatements(opts, ss).lines

\* A sorted run whose output differs from one of the walker's orders.
DeterminismWitness ==
    /\ pc = "done"
    /\ input.kind = "json"
    /\ ~has(opts, OptNoSort)
    /\ \E ord \in Orders : fill(rootPrefix, input.v, ord) # ss
    /\ \A ord \in Orders : sortStatements(fill(rootPrefix, input.v, ord)) = ss

(***************************************************************************)
(* C8  Walker completeness: the walk holds exactly one assignment per node *)
(* of v, addressed by the node's path below the root; a container has the  *)
(* value {} or [], a leaf its JSON literal; and the statement of a node     *)
(* precedes those of its descendants.                                      *)
(***************************************************************************)
WalkerComplete ==
    (pc = "done" /\ input.kind = "json" /\ has(opts, OptNoSort))
    => /\ Len(ss) = Cardinality(NodePaths(input.v))
       /\ \A p \in NodePaths(input.v) : \E n \in DOMAIN ss : PathBelowRoot(ss[n]) = p
       /\ \A n \in DOMAIN ss :
             /\ hasAssignment(ss[n])
             /\ ss[n][1] = token(json, typBare)
             /\ PathBelowRoot(ss[n]) \in NodePaths(input.v)
             /\ ss[n][Len(ss[n]) - 1].text = Literal(NodeAt(input.v, PathBelowRoot(ss[n])))
             /\ tokenValue(ss[n][Len(ss[n]) - 1])
                   = (LET node == NodeAt(input.v, PathBelowRoot(ss[n]))
                      IN  IF isArr(node) THEN Arr(<< >>)
                          ELSE IF isObj(node) THEN Obj(NoKeys) ELSE node)
       /\ \A n, m \in DOMAIN ss :
             IsProperPrefix(PathBelowRoot(ss[n]), PathBelowRoot(ss[m])) => n < m

\* An array in an object: three statements, the containers' first.
WalkerCompleteWitness ==
    /\ pc = "done"
    /\ has(opts, OptNoSort)
    /\ input = document(Obj(json :> Arr(<< Num(1, << "5" >>) >>)))
    /\ Len(ss) = 3
    /\ statementToString(ss[3])
          = json \o << ".", "j", "s", "o", "n", "[", "0", "]", " ", "=", " ", "1", ".", "5", ";" >>

(***************************************************************************)
(* C9  Path segment rendering: a key is added as .k iff it is non-empty,   *)
(* starts with a letter or underscore and goes on with letters, digits or  *)
(* underscores; any other key is added as ["k"] and an index n as [n].     *)
(***************************************************************************)
PathSegmentRendering ==
    pc = "done"
    => LET next == input.next
           r == out[1].r
       IN  /\ (out[1].fn = "keyMustBeQuoted") => (r = ~IsBareKey(next.s))
           /\ (out[1].fn = "keyMustBeQuoted" /\ next.s \in { dotted, dotted123 }) => (r = FALSE)
           /\ (out[1].fn = "keyMustBeQuoted" /\ next.s \in { isquoted, definitely }) => (r = TRUE)
           /\ (out[1].fn = "makePrefix" /\ next.kind = "str")
                 => r = (IF IsBareKey(next.s) THEN input.prev \o << "." >> \o next.s
                         ELSE input.prev \o << "[", "\"" >> \o next.s \o << "\"", "]" >>)
           /\ (out[1].fn = "makePrefix" /\ next.kind = "int")
                 => r = input.prev \o << "[" >>
                        \o (CASE next.n = 0 -> << "0" >>
                              [] next.n = 1 -> << "1" >>
                              [] next.n = 123 -> << "1", "2", "3" >>)
                        \o << "]" >>

\* A key that starts with a digit, quoted by makePrefix.
PathSegmentRenderingWitness ==
    /\ pc = "done"
    /\ out[1].fn = "makePrefix"
    /\ input.next = strNext(<< "1", "a" >>)
    /\ out[1].r = << "j", "[", "\"", "1", "a", "\"", "]" >>

(***************************************************************************)
(* C10  GronStream stops at the first failing line: with k the first line  *)
(* whose document makes no statements, the output is json = []; and the    *)
(* whole blocks of the lines before k, no later line is read, and the      *)
(* result is ExitFormStatements with an error; with no failing line and no *)
(* scanner error the result is ExitOK with no error.                       *)
(***************************************************************************)
FailingLines == { k \in 0..(Len(input.lines) - 1) : input.lines[k + 1].kind # "json" }
FirstFailing == CHOOSE k \in FailingLines : \A j \in FailingLines : k <= j

RECURSIVE SizeOfLines(_)
SizeOfLines(n) == IF n = 0 THEN 0 ELSE SizeOfLines(n - 1) + Size(input.lines[n].v)

StopsAtFirstFailure ==
    pc = "done"
    => IF FailingLines # {}
       THEN /\ i = FirstFailing + 1
            /\ code = ExitFormStatements
            /\ err
            /\ out[1] = TopLine
            /\ Len(out) = 1 + SizeOfLines(FirstFailing)
            /\ \A n \in 2..Len(out) :
                  PathBelowRoot(StatementOf(out[n]))[1].n < FirstFailing
            /\ \A k \in 0..(FirstFailing - 1) :
                  Cardinality({ n \in 2..Len(out) :
                                  PathBelowRoot(StatementOf(out[n]))[1] = idxSeg(k) })
                     = Size(input.lines[k + 1].v)
       ELSE ~input.fail
            => /\ code = ExitOK
               /\ ~err
               /\ i = Len(input.lines)
               /\ Len(out) = 1 + SizeOfLines(Len(input.lines))

\* A document, then a failing line, then a document that is never read.
StopsAtFirstFailureWitness ==
    /\ pc = "done"
    /\ Len(input.lines) = 3
    /\ input.lines[3].kind = "json"
    /\ FailingLines # {}
    /\ FirstFailing = 1
    /\ i = 2
    /\ Len(out) = 1 + Size(input.lines[1].v)
    /\ code = ExitFormStatements

=============================================================================
